---- MODULE Spec2Model ----
(***************************************************************************)
(* Model of the payment-provider adapters of xyz-payment: the webhook      *)
(* handlers, createCheckoutLink and createCustomerPortalLink of the eight  *)
(* providers, Tap's chargeCard and extractSavedCardFromWebhook, over the   *)
(* process environment (process.env). Spec runs one invocation at a time,  *)
(* SpecConcurrent interleaves MaxCalls invocations at their fetch awaits.  *)
(*                                                                         *)
(* Strings that the code concatenates, hashes or parses are sequences of   *)
(* tokens; an HMAC digest is the pair (key, message) it was computed from,  *)
(* so two digests are equal exactly when key and message are equal.        *)
(***************************************************************************)
EXTENDS Integers, Sequences, FiniteSets, TLC

VARIABLES env, pc, op, provider, req, params, data, res, net, netIn, calls

vars == <<env, pc, op, provider, req, params, data, res, net, netIn, calls>>

----------------------------------------------------------------------------
\* Bounds of the model

\* seats of a checkout request range over 1..MaxSeats (or are absent)
MaxSeats == 2

\* the number of invocations that run concurrently
MaxCalls == 2

----------------------------------------------------------------------------
\* Providers and the process environment

Providers ==
  {"stripe", "lemonsqueezy", "polar", "creem", "dodopayments", "tap", "console", "custom"}

SignedProviders == {"stripe", "lemonsqueezy", "polar", "creem", "dodopayments", "tap"}

EnvKeys ==
  {"STRIPE_SECRET_KEY", "STRIPE_WEBHOOK_SECRET",
   "LEMONSQUEEZY_API_KEY", "LEMONSQUEEZY_STORE_ID", "LEMONSQUEEZY_WEBHOOK_SECRET",
   "POLAR_ACCESS_TOKEN", "POLAR_WEBHOOK_SECRET",
   "CREEM_API_KEY", "CREEM_WEBHOOK_SECRET",
   "DODO_PAYMENTS_API_KEY", "DODO_PAYMENTS_WEBHOOK_SECRET",
   "TAP_SECRET_KEY", "TAP_WEBHOOK_SECRET"}

\* process.env.X is undefined, the empty string, or the configured value
Unset == "<undefined>"
Blank == ""
ValueOf(k) == "value-of-" \o k

\* `!x` of a string-or-undefined x
Falsy(v) == v = Unset \/ v = Blank

AllSet == [k \in EnvKeys |-> ValueOf(k)]

\* The keys and the webhook secret of a provider (README, Environment
\* Variables)
ProviderKeys(p) ==
  CASE p = "stripe" -> {"STRIPE_SECRET_KEY", "STRIPE_WEBHOOK_SECRET"}
    [] p = "lemonsqueezy" -> {"LEMONSQUEEZY_API_KEY", "LEMONSQUEEZY_STORE_ID",
                              "LEMONSQUEEZY_WEBHOOK_SECRET"}
    [] p = "polar" -> {"POLAR_ACCESS_TOKEN", "POLAR_WEBHOOK_SECRET"}
    [] p = "creem" -> {"CREEM_API_KEY", "CREEM_WEBHOOK_SECRET"}
    [] p = "dodopayments" -> {"DODO_PAYMENTS_API_KEY", "DODO_PAYMENTS_WEBHOOK_SECRET"}
    [] p = "tap" -> {"TAP_SECRET_KEY", "TAP_WEBHOOK_SECRET"}
    [] OTHER -> {}

\* The environments of the model: everything configured, or one key undefined
\* or empty, or both LemonSqueezy checkout keys undefined, or one provider
\* not configured at all.
Envs ==
  {AllSet}
    \cup {[AllSet EXCEPT ![k] = v] : k \in EnvKeys, v \in {Unset, Blank}}
    \cup {[AllSet EXCEPT !["LEMONSQUEEZY_API_KEY"] = Unset,
                         !["LEMONSQUEEZY_STORE_ID"] = Unset]}
    \cup {[k \in EnvKeys |-> IF k \in ProviderKeys(a) THEN Unset ELSE ValueOf(k)] :
            a \in SignedProviders}

WebhookSecretKey(p) ==
  CASE p = "stripe" -> "STRIPE_WEBHOOK_SECRET"
    [] p = "lemonsqueezy" -> "LEMONSQUEEZY_WEBHOOK_SECRET"
    [] p = "polar" -> "POLAR_WEBHOOK_SECRET"
    [] p = "creem" -> "CREEM_WEBHOOK_SECRET"
    [] p = "dodopayments" -> "DODO_PAYMENTS_WEBHOOK_SECRET"
    [] p = "tap" -> "TAP_WEBHOOK_SECRET"

----------------------------------------------------------------------------
\* Strings, JSON texts and their parse

\* A header value: present or not, and the string it carries.
NoHeader == [present |-> FALSE, str |-> <<>>]
Header(s) == [present |-> TRUE, str |-> s]

\* `!h` of the result of headers.get(): null or the empty string
HeaderFalsy(h) == ~h.present \/ h.str = <<>>

\* The members (key=value tokens) a JSON object text of the model may hold.
FieldTokens ==
  {"type=subscription.created", "type=unknown.event",
   "meta={event_name=subscription_created}",
   "eventType=checkout.completed",
   "event=CHARGE.CAPTURED", "event=CHARGE.FAILED",
   "data={}", "data={card,customer,payment_agreement}", "data={card,customer}"}

KeyOf(tok) ==
  CASE tok \in {"type=subscription.created", "type=unknown.event"} -> "type"
    [] tok = "meta={event_name=subscription_created}" -> "meta"
    [] tok = "eventType=checkout.completed" -> "eventType"
    [] tok \in {"event=CHARGE.CAPTURED", "event=CHARGE.FAILED"} -> "event"
    [] tok \in {"data={}", "data={card,customer,payment_agreement}",
                "data={card,customer}"} -> "data"

\* JSON.parse: the literal null, or an object { member ... }; anything else
\* is a SyntaxError.
JsonParse(text) ==
  IF text = <<"null">>
  THEN [ok |-> TRUE, kind |-> "null", fields |-> <<>>]
  ELSE IF /\ Len(text) >= 2
          /\ text[1] = "{"
          /\ text[Len(text)] = "}"
          /\ \A i \in 2..(Len(text) - 1) : text[i] \in FieldTokens
       THEN [ok |-> TRUE, kind |-> "object", fields |-> SubSeq(text, 2, Len(text) - 1)]
       ELSE [ok |-> FALSE, kind |-> "error", fields |-> <<>>]

\* value.key of a parsed object: the member's token, or "undefined"
Undefined == "undefined"
Prop(value, key) ==
  IF \E i \in 1..Len(value.fields) : KeyOf(value.fields[i]) = key
  THEN value.fields[CHOOSE i \in 1..Len(value.fields) : KeyOf(value.fields[i]) = key]
  ELSE Undefined

\* Reading a property of null or undefined raises a TypeError.
ReadThrows(value) == value.kind = "null"

\* The texts a request body may carry.
LsScenarioBody == <<"{", "meta={event_name=subscription_created}", "data={}", "}">>
DodoScenarioBody == <<"{", "type=subscription.created", "data={}", "}">>
CreemEventBody == <<"{", "eventType=checkout.completed", "}">>
TapCapturedBody == <<"{", "event=CHARGE.CAPTURED", "data={card,customer,payment_agreement}", "}">>
TapCapturedNoDataBody == <<"{", "event=CHARGE.CAPTURED", "}">>
OtherEventBody == <<"{", "type=unknown.event", "data={}", "}">>
EmptyObjectBody == <<"{", "}">>
NullBody == <<"null">>
TruncatedBody == <<"{", "type=subscription.created">>

Texts ==
  {LsScenarioBody, DodoScenarioBody, CreemEventBody, TapCapturedBody,
   TapCapturedNoDataBody, OtherEventBody, EmptyObjectBody, NullBody, TruncatedBody}

\* A request body: absent (req.body is null), a stream whose read fails
\* (req.text() rejects), or a readable text.
NoBody == [kind |-> "none", text |-> <<>>]
UnreadableBody == [kind |-> "unreadable", text |-> <<>>]
TextBody(t) == [kind |-> "text", text |-> t]

Bodies == {NoBody, UnreadableBody} \cup {TextBody(t) : t \in Texts}

\* A GET request carries no body (the Request constructor refuses one).
Methods == {"POST", "PUT", "GET"}

----------------------------------------------------------------------------
\* Signatures

\* createHmac("sha256", key).update(msg).digest("hex"): 64 hex characters
\* standing for (key, msg). agree is the number of leading characters a
\* value that is not the expected digest shares with it (none for a digest
\* of another key or message).
HexLen == 64
HexHmac(key, msg) ==
  [present |-> TRUE, len |-> HexLen, key |-> key, msg |-> msg, agree |-> 0]

\* Signature header values that are no digest: header absent, empty,
\* "deadbeef", 64 hex characters that are the digest of nothing relevant, and
\* 64 hex characters that differ from the expected digest in the last one.
NoSig == [present |-> FALSE, len |-> 0, key |-> "", msg |-> <<>>, agree |-> 0]
EmptySig == [present |-> TRUE, len |-> 0, key |-> "", msg |-> <<>>, agree |-> 0]
DeadBeef == [present |-> TRUE, len |-> 8, key |-> "", msg |-> <<>>, agree |-> 0]
WrongHex == [present |-> TRUE, len |-> HexLen, key |-> "", msg |-> <<>>, agree |-> 0]
NearHex ==
  [present |-> TRUE, len |-> HexLen, key |-> "", msg |-> <<>>, agree |-> HexLen - 1]

SigFalsy(s) == ~s.present \/ s.len = 0

\* The secret the provider signs with (the value the webhook secret has when
\* it is configured), and a key an attacker signs with.
ProviderSecret(p) == ValueOf(WebhookSecretKey(p))
AttackerKey == "attacker-key"

\* a signed payload that leaves the id and the timestamp out (mutant)
CompositePayload_BodyOnly(id, ts, body) == body

\* `${webhookId}.${webhookTimestamp}.${body}`
CompositePayload(id, ts, body) == id \o <<".">> \o ts \o <<".">> \o body

\* The message a provider's signature covers (section 4.2 of the design: the
\* raw body; for DodoPayments id.timestamp.body; for Tap a canonical string
\* of the parsed payload).
TapCanonical(payload) ==
  <<"tap">> \o (IF payload.kind = "null" THEN <<"null">> ELSE payload.fields)

SignedMessage(p, id, ts, text) ==
  CASE p = "dodopayments" -> CompositePayload(id, ts, text)
    [] p = "tap" -> IF JsonParse(text).ok THEN TapCanonical(JsonParse(text))
                    ELSE <<"raw">> \o text
    [] OTHER -> text

----------------------------------------------------------------------------
\* Webhook requests and responses

\* req.text(): the text of the body, the empty string when there is none
BodyText(body) == body.text

NoReq == [method |-> "", body |-> NoBody, sig |-> NoSig, id |-> NoHeader, ts |-> NoHeader]

\* new Response(text, { status }) returned, or an exception raised to the
\* caller; trace lists the steps the handler went through, in order.
\* compared is the number of characters the signature comparison examined.
NoRes ==
  [kind |-> "none", status |-> 0, text |-> "", trace |-> <<>>, value |-> "",
   compared |-> 0, chargeStatus |-> "", saved |-> [customerId |-> "", cardId |-> "", paymentAgreementId |-> ""]]
Resp(status, text, trace) == [NoRes EXCEPT !.kind = "response", !.status = status,
                                           !.text = text, !.trace = trace]
Raise(text, trace) == [NoRes EXCEPT !.kind = "threw", !.text = text, !.trace = trace]

\* a catch block that raises again (mutant)
Caught_Rethrown(trace) == Raise("Invalid webhook payload", trace)

\* catch { return new Response("Invalid webhook payload", { status: 400 }) }
Caught(trace) == Resp(400, "Invalid webhook payload", trace)

\* a comparison that stops at the lengths (mutant)
TimingSafeEqual_LengthOnly(a, b) ==
  [threw |-> a.len # b.len, eq |-> a.len = b.len, steps |-> 0]

\* crypto.timingSafeEqual(a, b): a RangeError when the byte lengths differ,
\* else every byte is examined
TimingSafeEqual(a, b) ==
  [threw |-> a.len # b.len, eq |-> a = b,
   steps |-> IF a.len # b.len THEN 0 ELSE a.len]

\* a !== b of two strings: the lengths first, then character by character up
\* to the first that differs
StrictNotEqual(a, b) ==
  [neq |-> a # b,
   steps |-> IF a.len # b.len THEN 0
             ELSE IF a = b THEN a.len
             ELSE (IF a.agree >= b.agree THEN a.agree ELSE b.agree) + 1]

ConsoleWebhookHandler(e, r) == Resp(200, "", <<>>)

CustomWebhookHandler(e, r) == Raise("Custom webhookHandler not implemented", <<>>)

StripeWebhookHandler(e, r) ==
  LET webhookSecret == e["STRIPE_WEBHOOK_SECRET"] IN
  IF Falsy(webhookSecret) THEN Resp(500, "Missing STRIPE_WEBHOOK_SECRET", <<>>)
  ELSE IF r.body.kind = "none" THEN Resp(400, "Invalid request", <<>>)
  ELSE IF SigFalsy(r.sig) THEN Resp(400, "Missing stripe-signature header", <<>>)
  ELSE \* try
    IF r.body.kind = "unreadable" THEN Caught(<<>>)
    ELSE LET event == JsonParse(BodyText(r.body)) IN
      IF ~event.ok THEN Caught(<<"read">>)
      ELSE IF ReadThrows(event) THEN Caught(<<"read", "parse">>)
      ELSE Resp(200, "", <<"read", "parse", "dispatch">>)

\* the Polar handler answering with Stripe's success status (mutant)
PolarWebhookHandler_Status200(e, r) ==
  LET webhookSecret == e["POLAR_WEBHOOK_SECRET"] IN
  IF Falsy(webhookSecret) THEN Resp(500, "Missing POLAR_WEBHOOK_SECRET", <<>>)
  ELSE IF r.body.kind = "none" THEN Resp(400, "No body", <<>>)
  ELSE IF r.body.kind = "unreadable" THEN Caught(<<>>)
  ELSE LET event == JsonParse(BodyText(r.body)) IN
    IF ~event.ok THEN Caught(<<"read">>)
    ELSE IF ReadThrows(event) THEN Caught(<<"read", "parse">>)
    ELSE Resp(200, "", <<"read", "parse", "dispatch">>)

PolarWebhookHandler(e, r) ==
  LET webhookSecret == e["POLAR_WEBHOOK_SECRET"] IN
  IF Falsy(webhookSecret) THEN Resp(500, "Missing POLAR_WEBHOOK_SECRET", <<>>)
  ELSE IF r.body.kind = "none" THEN Resp(400, "No body", <<>>)
  ELSE \* try
    IF r.body.kind = "unreadable" THEN Caught(<<>>)
    ELSE LET event == JsonParse(BodyText(r.body)) IN
      IF ~event.ok THEN Caught(<<"read">>)
      ELSE IF ReadThrows(event) THEN Caught(<<"read", "parse">>)
      ELSE Resp(202, "", <<"read", "parse", "dispatch">>)

LemonSqueezyWebhookHandler(e, r) ==
  LET webhookSecret == e["LEMONSQUEEZY_WEBHOOK_SECRET"] IN
  IF Falsy(webhookSecret) THEN Resp(500, "Missing LEMONSQUEEZY_WEBHOOK_SECRET", <<>>)
  ELSE \* try
    IF r.body.kind = "unreadable" THEN Caught(<<>>)
    ELSE LET text == BodyText(r.body)
             digest == HexHmac(webhookSecret, text)
             signature == r.sig
         IN
      \* Buffer.from(null, "utf8") raises a TypeError
      IF ~signature.present THEN Caught(<<"read">>)
      ELSE IF TimingSafeEqual(digest, signature).threw THEN Caught(<<"read">>)
      ELSE LET
        after ==
          IF ~TimingSafeEqual(digest, signature).eq
          THEN Resp(400, "Invalid signature", <<"read", "verify_invalid">>)
          ELSE LET payload == JsonParse(text) IN
            IF ~payload.ok THEN Caught(<<"read", "verify_valid">>)
            ELSE IF ReadThrows(payload) \/ Prop(payload, "meta") = Undefined
              THEN Caught(<<"read", "verify_valid", "parse">>)
            ELSE Resp(204, "", <<"read", "verify_valid", "parse", "dispatch">>)
        IN [after EXCEPT !.compared = TimingSafeEqual(digest, signature).steps]

CreemWebhookHandler(e, r) ==
  IF r.method # "POST" THEN Resp(405, "Method not allowed", <<>>)
  ELSE LET signature == r.sig IN
  IF SigFalsy(signature) THEN Resp(400, "Missing signature", <<>>)
  ELSE LET secret == e["CREEM_WEBHOOK_SECRET"] IN
  IF Falsy(secret) THEN Resp(500, "Missing CREEM_WEBHOOK_SECRET", <<>>)
  \* await req.text() is outside the try block
  ELSE IF r.body.kind = "unreadable" THEN Raise("TypeError: body unreadable", <<>>)
  ELSE LET bodyText == BodyText(r.body)
           computedSignature == HexHmac(secret, bodyText)
       IN
    LET
      after ==
        IF StrictNotEqual(computedSignature, signature).neq
        THEN Resp(400, "Invalid signature", <<"read", "verify_invalid">>)
        ELSE \* try
          LET payload == JsonParse(bodyText) IN
          IF ~payload.ok THEN Caught(<<"read", "verify_valid">>)
          ELSE IF ReadThrows(payload) THEN Caught(<<"read", "verify_valid", "parse">>)
          ELSE Resp(204, "", <<"read", "verify_valid", "parse", "dispatch">>)
    IN [after EXCEPT !.compared = StrictNotEqual(computedSignature, signature).steps]

DodoPaymentsWebhookHandler(e, r) ==
  LET webhookSecret == e["DODO_PAYMENTS_WEBHOOK_SECRET"] IN
  IF Falsy(webhookSecret) THEN Resp(500, "Missing DODO_PAYMENTS_WEBHOOK_SECRET", <<>>)
  ELSE IF r.body.kind = "none" THEN Resp(400, "Invalid request", <<>>)
  ELSE \* try
    IF r.body.kind = "unreadable" THEN Caught(<<>>)
    ELSE LET body == BodyText(r.body)
             webhookId == r.id
             webhookSignature == r.sig
             webhookTimestamp == r.ts
         IN
      IF HeaderFalsy(webhookId) \/ SigFalsy(webhookSignature) \/ HeaderFalsy(webhookTimestamp)
      THEN Resp(400, "Missing webhook headers", <<"read">>)
      ELSE LET payload == CompositePayload(webhookId.str, webhookTimestamp.str, body)
               expectedSignature == HexHmac(webhookSecret, payload)
           IN
        LET
          after ==
            IF StrictNotEqual(webhookSignature, expectedSignature).neq
            THEN Resp(401, "Invalid webhook signature", <<"read", "verify_invalid">>)
            ELSE LET event == JsonParse(body) IN
              IF ~event.ok THEN Caught(<<"read", "verify_valid">>)
              ELSE IF ReadThrows(event) THEN Caught(<<"read", "verify_valid", "parse">>)
              ELSE Resp(204, "", <<"read", "verify_valid", "parse", "dispatch">>)
        IN [after EXCEPT !.compared = StrictNotEqual(webhookSignature, expectedSignature).steps]

\* A member (card, customer, payment_agreement) of the data of a Tap event:
\* missing, or an object whose id is undefined, the empty string or a string.
NoMember == [present |-> FALSE, id |-> Undefined]
Member(id) == [present |-> TRUE, id |-> id]

\* The data of a Tap event; webhookData itself is undefined when the event
\* has no data member.
NoData == [defined |-> FALSE, card |-> NoMember, customer |-> NoMember,
           payment_agreement |-> NoMember]
Data(card, customer, paymentAgreement) ==
  [defined |-> TRUE, card |-> card, customer |-> customer,
   payment_agreement |-> paymentAgreement]

\* The data object a data member of a webhook body stands for.
DataIds(tok) ==
  CASE tok = "data={card,customer,payment_agreement}" ->
         Data(Member("card_1"), Member("cus_1"), Member("pa_1"))
    [] tok = "data={card,customer}" ->
         Data(Member("card_1"), Member("cus_1"), NoMember)
    [] tok = "data={}" -> Data(NoMember, NoMember, NoMember)
    [] OTHER -> NoData

NoSavedCard == [customerId |-> "", cardId |-> "", paymentAgreementId |-> ""]

\* `!member?.id`: the member is missing, or its id is undefined or empty
IdFalsy(member) == ~member.present \/ member.id = Undefined \/ member.id = ""

\* an extraction that takes customerId from the card (mutant)
ExtractSavedCardFromWebhook_CardAsCustomer(webhookData) ==
  IF ~webhookData.defined
  THEN [threw |-> TRUE, found |-> FALSE, card |-> NoSavedCard]
  ELSE IF \/ IdFalsy(webhookData.card)
          \/ IdFalsy(webhookData.customer)
          \/ IdFalsy(webhookData.payment_agreement)
    THEN [threw |-> FALSE, found |-> FALSE, card |-> NoSavedCard]
    ELSE [threw |-> FALSE, found |-> TRUE,
          card |-> [customerId |-> webhookData.card.id,
                    cardId |-> webhookData.card.id,
                    paymentAgreementId |-> webhookData.payment_agreement.id]]

\* extractSavedCardFromWebhook(webhookData): webhookData.card of an undefined
\* webhookData raises a TypeError; a missing or empty id gives null.
ExtractSavedCardFromWebhook(webhookData) ==
  IF ~webhookData.defined
  THEN [threw |-> TRUE, found |-> FALSE, card |-> NoSavedCard]
  ELSE IF \/ IdFalsy(webhookData.card)
          \/ IdFalsy(webhookData.customer)
          \/ IdFalsy(webhookData.payment_agreement)
    THEN [threw |-> FALSE, found |-> FALSE, card |-> NoSavedCard]
    ELSE [threw |-> FALSE, found |-> TRUE,
          card |-> [customerId |-> webhookData.customer.id,
                    cardId |-> webhookData.card.id,
                    paymentAgreementId |-> webhookData.payment_agreement.id]]

\* WebhookVerifier.verify(payload, headers) of @xyz/webhook-verifier with the
\* Tap configuration: valid exactly when the signature header is the HMAC of
\* the canonical string of the payload under the secret; never raises; data
\* is the payload.
TapVerify(secretKey, payload, signature) ==
  [isValid |-> ~SigFalsy(signature) /\ signature = HexHmac(secretKey, TapCanonical(payload)),
   data |-> payload]

TapWebhookHandler(e, r) ==
  IF r.body.kind = "none" THEN Resp(400, "Invalid request", <<>>)
  ELSE \* try
    IF r.body.kind = "unreadable" THEN Caught(<<>>)
    ELSE LET body == BodyText(r.body)
             webhookSecret == e["TAP_WEBHOOK_SECRET"]
         IN
      \* getTapVerifier() raises inside the try block
      IF Falsy(webhookSecret) THEN Caught(<<"read">>)
      ELSE LET payload == JsonParse(body) IN
        IF ~payload.ok THEN Caught(<<"read">>)
        ELSE LET result == TapVerify(webhookSecret, payload, r.sig) IN
          IF ~result.isValid
          THEN Resp(401, "Invalid signature", <<"read", "parse", "verify_invalid">>)
          ELSE LET event == result.data IN
            IF ReadThrows(event) THEN Caught(<<"read", "parse", "verify_valid">>)
            ELSE IF Prop(event, "event") = "event=CHARGE.CAPTURED"
              THEN IF ExtractSavedCardFromWebhook(DataIds(Prop(event, "data"))).threw
                   THEN Caught(<<"read", "parse", "verify_valid", "dispatch">>)
                   ELSE Resp(200, "", <<"read", "parse", "verify_valid", "dispatch", "extract">>)
              ELSE Resp(200, "", <<"read", "parse", "verify_valid", "dispatch">>)

\* usePayment(p).webhookHandler(req)
WebhookHandler(p, e, r) ==
  CASE p = "stripe" -> StripeWebhookHandler(e, r)
    [] p = "lemonsqueezy" -> LemonSqueezyWebhookHandler(e, r)
    [] p = "polar" -> PolarWebhookHandler(e, r)
    [] p = "creem" -> CreemWebhookHandler(e, r)
    [] p = "dodopayments" -> DodoPaymentsWebhookHandler(e, r)
    [] p = "tap" -> TapWebhookHandler(e, r)
    [] p = "console" -> ConsoleWebhookHandler(e, r)
    [] p = "custom" -> CustomWebhookHandler(e, r)

\* The webhook-id and webhook-timestamp values of the model; "a" with "b.c"
\* and "a.b" with "c" join to the same signed string.
IdStrs == {<<"a">>, <<"a", ".", "b">>}
TsStrs == {<<"c">>, <<"b", ".", "c">>}

\* The text the provider signed when it is not the text received.
OriginalText(p) ==
  CASE p = "lemonsqueezy" -> LsScenarioBody
    [] p = "creem" -> CreemEventBody
    [] p = "tap" -> TapCapturedBody
    [] OTHER -> DodoScenarioBody

\* The signature the provider's scheme gives the request (id, ts, text)
\* under key k.
Signature(p, k, id, ts, text) == HexHmac(k, SignedMessage(p, id, ts, text))

\* The requests a handler is given: any method and body (a GET request has
\* none), and a signature header that is absent, no digest, or the digest
\* (under the provider's secret or another key) of the request as received or
\* as originally signed.
SignatureValues(p, body) ==
  LET sids == IF p = "dodopayments" THEN IdStrs ELSE {<<>>}
      stss == IF p = "dodopayments" THEN TsStrs ELSE {<<>>}
      keys == IF p \in SignedProviders THEN {ProviderSecret(p), AttackerKey} ELSE {}
  IN {NoSig, EmptySig, DeadBeef, WrongHex, NearHex}
       \cup {Signature(p, k, i, t, x) :
               k \in keys, i \in sids, t \in stss,
               x \in {BodyText(body), OriginalText(p)}}

Requests(p) ==
  LET ids == IF p = "dodopayments" THEN {NoHeader} \cup {Header(s) : s \in IdStrs} ELSE {NoHeader}
      tss == IF p = "dodopayments" THEN {NoHeader} \cup {Header(s) : s \in TsStrs} ELSE {NoHeader}
  IN UNION {
       UNION {
         {[method |-> m, body |-> b, sig |-> s, id |-> i, ts |-> t] :
            s \in SignatureValues(p, b), i \in ids, t \in tss} :
         b \in IF m = "GET" THEN {NoBody} ELSE Bodies} :
       m \in Methods}

----------------------------------------------------------------------------
\* Calls that reach the provider's API

\* An optional number that is undefined
NoNum == -1

\* `n ?? 1` and `!n` of an optional number
OrOne(n) == IF n = NoNum THEN 1 ELSE n
NumFalsy(n) == n = NoNum \/ n = 0

NoParams ==
  [type |-> "", seats |-> NoNum, trialPeriodDays |-> NoNum,
   customerId |-> "", cardId |-> "", paymentAgreementId |-> ""]

\* CreateCheckoutLinkParams: type, seats and trialPeriodDays (the other
\* members are copied into the request and decide nothing).
CheckoutParams ==
  {[NoParams EXCEPT !.type = t, !.seats = n, !.trialPeriodDays = d] :
     t \in {"subscription", "one-time"},
     n \in {NoNum} \cup (0..MaxSeats),
     d \in {NoNum, 0, 14}}

\* ChargeCardParams: the saved card to charge
ChargeParams ==
  {[NoParams EXCEPT !.customerId = "cus_1", !.cardId = c, !.paymentAgreementId = "pa_1"] :
     c \in {"card_1", "card_2"}}

\* An outbound fetch(): its path and bearer/api key, and of its body the
\* quantity, the trial days and save_card (NoNum, "" when it has none), the
\* customer id of a portal request, and for Tap's calls the saved card, the
\* source id and customer_initiated.
NoFetch ==
  [path |-> "", auth |-> "", quantity |-> NoNum, trial |-> NoNum, saveCard |-> "",
   customer |-> "", cardId |-> "", source |-> "", customerInitiated |-> ""]

\* A provider's answer: response.ok, whether its body is JSON, and of the
\* JSON body the id, status and url members.
NoAnswer == [ok |-> FALSE, json |-> TRUE, id |-> "", status |-> "", url |-> ""]

\* Answers whose body is no JSON (an HTML error page of a gateway, an empty
\* body): with a status that is not ok, or ok.
NotJsonAnswers == {[NoAnswer EXCEPT !.ok = o, !.json = FALSE] : o \in BOOLEAN}

CheckoutAnswers ==
  {[NoAnswer EXCEPT !.ok = TRUE, !.url = u] : u \in {"https://provider/checkout", Undefined}}
    \cup {NoAnswer} \cup NotJsonAnswers
TokenAnswers ==
  {[NoAnswer EXCEPT !.ok = TRUE, !.id = t] : t \in {"tok_1", "tok_2"}}
    \cup {NoAnswer} \cup NotJsonAnswers
ChargeAnswers ==
  {[NoAnswer EXCEPT !.ok = TRUE, !.id = "chg_1", !.status = st] :
     st \in {"CAPTURED", "INITIATED", "FAILED"}}
    \cup {NoAnswer} \cup NotJsonAnswers

\* What a function does up to its first await: raises, returns, or issues a
\* fetch and waits for the answer.
Raises(text) == [kind |-> "threw", text |-> text, value |-> "", fetch |-> NoFetch]
Returns(value) == [kind |-> "returned", text |-> "", value |-> value, fetch |-> NoFetch]
Fetches(f) == [kind |-> "fetch", text |-> "", value |-> "", fetch |-> f]

ConsoleCreateCheckoutLink(e, prm) == Returns("https://example.com/checkout/mock-session-id")

CustomCreateCheckoutLink(e, prm) == Raises("Custom createCheckoutLink not implemented")

StripeCreateCheckoutLink(e, prm) ==
  LET secretKey == e["STRIPE_SECRET_KEY"] IN
  IF Falsy(secretKey) THEN Raises("Missing env variable STRIPE_SECRET_KEY")
  ELSE Fetches([NoFetch EXCEPT
         !.path = "/checkout/sessions",
         !.auth = secretKey,
         !.quantity = OrOne(prm.seats),
         !.trial = IF prm.type = "subscription" /\ ~NumFalsy(prm.trialPeriodDays)
                   THEN prm.trialPeriodDays ELSE NoNum])

LemonSqueezyCreateCheckoutLink(e, prm) ==
  LET apiKey == e["LEMONSQUEEZY_API_KEY"]
      storeId == e["LEMONSQUEEZY_STORE_ID"]
  IN
  IF Falsy(apiKey) THEN Raises("Missing env variable LEMONSQUEEZY_API_KEY")
  ELSE IF Falsy(storeId) THEN Raises("Missing env variable LEMONSQUEEZY_STORE_ID")
  ELSE Fetches([NoFetch EXCEPT
         !.path = "/checkouts",
         !.auth = apiKey,
         !.quantity = OrOne(prm.seats)])

PolarCreateCheckoutLink(e, prm) ==
  LET accessToken == e["POLAR_ACCESS_TOKEN"] IN
  IF Falsy(accessToken) THEN Raises("Missing env variable POLAR_ACCESS_TOKEN")
  ELSE Fetches([NoFetch EXCEPT !.path = "/checkouts", !.auth = accessToken])

\* creemFetch that calls fetch without reading the key first (mutant)
CreemCreateCheckoutLink_FetchFirst(e, prm) ==
  Fetches([NoFetch EXCEPT
         !.path = "/checkouts",
         !.auth = e["CREEM_API_KEY"],
         !.quantity = OrOne(prm.seats)])

\* creemFetch reads the key, then calls fetch
CreemCreateCheckoutLink(e, prm) ==
  LET apiKey == e["CREEM_API_KEY"] IN
  IF Falsy(apiKey) THEN Raises("Missing env variable CREEM_API_KEY")
  ELSE Fetches([NoFetch EXCEPT
         !.path = "/checkouts",
         !.auth = apiKey,
         !.quantity = OrOne(prm.seats)])

DodoPaymentsCreateCheckoutLink(e, prm) ==
  LET apiKey == e["DODO_PAYMENTS_API_KEY"] IN
  IF Falsy(apiKey) THEN Raises("Missing env variable DODO_PAYMENTS_API_KEY")
  ELSE Fetches([NoFetch EXCEPT
         !.path = "/checkout-sessions",
         !.auth = apiKey,
         !.quantity = OrOne(prm.seats),
         !.trial = IF ~NumFalsy(prm.trialPeriodDays) THEN prm.trialPeriodDays ELSE NoNum])

\* a checkout that saves the card whatever the type is (mutant)
TapCreateCheckoutLink_AlwaysSaving(e, prm) ==
  LET secretKey == e["TAP_SECRET_KEY"] IN
  IF Falsy(secretKey) THEN Raises("Missing env variable TAP_SECRET_KEY")
  ELSE Fetches([NoFetch EXCEPT
         !.path = "/charges",
         !.auth = secretKey,
         !.quantity = OrOne(prm.seats),
         !.saveCard = "true",
         !.source = "src_all"])

TapCreateCheckoutLink(e, prm) ==
  LET secretKey == e["TAP_SECRET_KEY"] IN
  IF Falsy(secretKey) THEN Raises("Missing env variable TAP_SECRET_KEY")
  ELSE Fetches([NoFetch EXCEPT
         !.path = "/charges",
         !.auth = secretKey,
         !.quantity = OrOne(prm.seats),
         !.saveCard = IF prm.type = "subscription" THEN "true" ELSE "false",
         !.source = "src_all"])

\* usePayment(p).createCheckoutLink(params), up to its first await
CreateCheckoutLink(p, e, prm) ==
  CASE p = "stripe" -> StripeCreateCheckoutLink(e, prm)
    [] p = "lemonsqueezy" -> LemonSqueezyCreateCheckoutLink(e, prm)
    [] p = "polar" -> PolarCreateCheckoutLink(e, prm)
    [] p = "creem" -> CreemCreateCheckoutLink(e, prm)
    [] p = "dodopayments" -> DodoPaymentsCreateCheckoutLink(e, prm)
    [] p = "tap" -> TapCreateCheckoutLink(e, prm)
    [] p = "console" -> ConsoleCreateCheckoutLink(e, prm)
    [] p = "custom" -> CustomCreateCheckoutLink(e, prm)

\* `${Provider} API error: ...`
ApiErrorText(p) ==
  CASE p = "stripe" -> "Stripe API error"
    [] p = "lemonsqueezy" -> "LemonSqueezy API error"
    [] p = "polar" -> "Polar API error"
    [] p = "creem" -> "Creem API error"
    [] p = "dodopayments" -> "DodoPayments API error"
    [] p = "tap" -> "Tap API error"

\* await response.json() of a body that is no JSON rejects
JsonSyntaxError == "SyntaxError: Unexpected token in JSON"

\* createCheckoutLink after its fetch is answered: when the answer is not ok
\* the error built from the JSON of its body, else the url of its JSON.
CheckoutLinkResult(p, answer) ==
  IF ~answer.json THEN Raises(JsonSyntaxError)
  ELSE IF ~answer.ok THEN Raises(ApiErrorText(p))
  ELSE Returns(answer.url)

\* CreateCustomerPortalLinkParams: the customer (redirectUrl is copied into
\* the request and decides nothing).
PortalParams == {[NoParams EXCEPT !.customerId = c] : c \in {"cus_1", "cus_2"}}

ConsoleCreateCustomerPortalLink(e, prm) ==
  Returns("https://example.com/portal/mock-session-id")

CustomCreateCustomerPortalLink(e, prm) ==
  Raises("Custom createCustomerPortalLink not implemented")

StripeCreateCustomerPortalLink(e, prm) ==
  LET secretKey == e["STRIPE_SECRET_KEY"] IN
  IF Falsy(secretKey) THEN Raises("Missing env variable STRIPE_SECRET_KEY")
  ELSE Fetches([NoFetch EXCEPT
         !.path = "/billing_portal/sessions",
         !.auth = secretKey,
         !.customer = prm.customerId])

LemonSqueezyCreateCustomerPortalLink(e, prm) ==
  LET apiKey == e["LEMONSQUEEZY_API_KEY"] IN
  IF Falsy(apiKey) THEN Raises("Missing env variable LEMONSQUEEZY_API_KEY")
  ELSE Fetches([NoFetch EXCEPT
         !.path = "/customers/:id",
         !.auth = apiKey,
         !.customer = prm.customerId])

\* a portal link that refuses to run while Stripe is not configured
\* (mutant)
PolarCreateCustomerPortalLink_NeedsStripe(e, prm) ==
  LET accessToken == e["POLAR_ACCESS_TOKEN"] IN
  IF Falsy(e["STRIPE_SECRET_KEY"]) THEN Raises("Missing env variable STRIPE_SECRET_KEY")
  ELSE IF Falsy(accessToken) THEN Raises("Missing env variable POLAR_ACCESS_TOKEN")
  ELSE Fetches([NoFetch EXCEPT
         !.path = "/customer-sessions",
         !.auth = accessToken,
         !.customer = prm.customerId])

PolarCreateCustomerPortalLink(e, prm) ==
  LET accessToken == e["POLAR_ACCESS_TOKEN"] IN
  IF Falsy(accessToken) THEN Raises("Missing env variable POLAR_ACCESS_TOKEN")
  ELSE Fetches([NoFetch EXCEPT
         !.path = "/customer-sessions",
         !.auth = accessToken,
         !.customer = prm.customerId])

CreemCreateCustomerPortalLink(e, prm) ==
  LET apiKey == e["CREEM_API_KEY"] IN
  IF Falsy(apiKey) THEN Raises("Missing env variable CREEM_API_KEY")
  ELSE Fetches([NoFetch EXCEPT
         !.path = "/customers/billing",
         !.auth = apiKey,
         !.customer = prm.customerId])

DodoPaymentsCreateCustomerPortalLink(e, prm) ==
  LET apiKey == e["DODO_PAYMENTS_API_KEY"] IN
  IF Falsy(apiKey) THEN Raises("Missing env variable DODO_PAYMENTS_API_KEY")
  ELSE Fetches([NoFetch EXCEPT
         !.path = "/customers/:id/portal",
         !.auth = apiKey,
         !.customer = prm.customerId])

TapPortalError ==
  "Tap Payments does not have a built-in customer portal. Build your own billing management page using the subscription helpers."

\* a portal link that asks Tap for a session, as the other providers do
\* (mutant)
TapCreateCustomerPortalLink_Fetching(e, prm) ==
  LET secretKey == e["TAP_SECRET_KEY"] IN
  IF Falsy(secretKey) THEN Raises("Missing env variable TAP_SECRET_KEY")
  ELSE Fetches([NoFetch EXCEPT
         !.path = "/customers/:id/portal",
         !.auth = secretKey,
         !.customer = prm.customerId])

\* Tap has no customer portal: the function throws at once
TapCreateCustomerPortalLink(e, prm) == Raises(TapPortalError)

\* usePayment(p).createCustomerPortalLink(params), up to its first await
CreateCustomerPortalLink(p, e, prm) ==
  CASE p = "stripe" -> StripeCreateCustomerPortalLink(e, prm)
    [] p = "lemonsqueezy" -> LemonSqueezyCreateCustomerPortalLink(e, prm)
    [] p = "polar" -> PolarCreateCustomerPortalLink(e, prm)
    [] p = "creem" -> CreemCreateCustomerPortalLink(e, prm)
    [] p = "dodopayments" -> DodoPaymentsCreateCustomerPortalLink(e, prm)
    [] p = "tap" -> TapCreateCustomerPortalLink(e, prm)
    [] p = "console" -> ConsoleCreateCustomerPortalLink(e, prm)
    [] p = "custom" -> CustomCreateCustomerPortalLink(e, prm)

\* createCustomerPortalLink after its fetch is answered: when the answer is
\* not ok the error built from the JSON of its body, else the portal url of
\* its JSON.
PortalLinkResult(p, answer) ==
  IF ~answer.json THEN Raises(JsonSyntaxError)
  ELSE IF ~answer.ok THEN Raises(ApiErrorText(p))
  ELSE Returns(answer.url)

\* chargeCard up to its first await: the key, then POST /tokens
ChargeCardTokenize(e, prm) ==
  LET secretKey == e["TAP_SECRET_KEY"] IN
  IF Falsy(secretKey) THEN Raises("Missing env variable TAP_SECRET_KEY")
  ELSE Fetches([NoFetch EXCEPT
         !.path = "/tokens",
         !.auth = secretKey,
         !.customer = prm.customerId,
         !.cardId = prm.cardId])

\* chargeCard that does not look at tokenResponse.ok (mutant)
ChargeCardCharge_IgnoringTokenFailure(secretKey, prm, tokenResponse) ==
  Fetches([NoFetch EXCEPT
         !.path = "/charges",
         !.auth = secretKey,
         !.customer = prm.customerId,
         !.source = tokenResponse.id,
         !.customerInitiated = "false"])

\* chargeCard that keeps the token in a variable of the module, which a
\* concurrent chargeCard overwrites (mutant)
ChargeCardCharge_SharedToken(secretKey, prm, tokenResponse) ==
  LET others == {c \in DOMAIN calls :
                   /\ calls[c].op = "chargeCard"
                   /\ Len(calls[c].netIn) >= 1
                   /\ calls[c].netIn[1].ok /\ calls[c].netIn[1].json
                   /\ calls[c].netIn[1].id # tokenResponse.id}
      lastToken == IF others = {} THEN tokenResponse.id
                   ELSE calls[CHOOSE c \in others : TRUE].netIn[1].id
  IN
  IF ~tokenResponse.json THEN Raises("SyntaxError: Unexpected token in JSON")
  ELSE IF ~tokenResponse.ok THEN Raises("Tap Token API error")
  ELSE Fetches([NoFetch EXCEPT
         !.path = "/charges",
         !.auth = secretKey,
         !.customer = prm.customerId,
         !.source = lastToken,
         !.customerInitiated = "false"])

\* chargeCard after the token answer: an error, or POST /charges with the
\* token id as source
ChargeCardCharge(secretKey, prm, tokenResponse) ==
  IF ~tokenResponse.json THEN Raises(JsonSyntaxError)
  ELSE IF ~tokenResponse.ok THEN Raises("Tap Token API error")
  ELSE Fetches([NoFetch EXCEPT
         !.path = "/charges",
         !.auth = secretKey,
         !.customer = prm.customerId,
         !.source = tokenResponse.id,
         !.customerInitiated = "false"])

\* a chargeCard that reads the status and raises when the charge failed
\* (mutant)
ChargeCardResult_InterpretingStatus(chargeResponse) ==
  IF ~chargeResponse.json THEN Raise("SyntaxError: Unexpected token in JSON", <<>>)
  ELSE IF ~chargeResponse.ok \/ chargeResponse.status = "FAILED"
  THEN Raise("Tap Charge API error", <<>>)
  ELSE [NoRes EXCEPT !.kind = "returned", !.value = chargeResponse.id,
                     !.chargeStatus = chargeResponse.status]

\* chargeCard after the charge answer: an error, or { chargeId, status }
ChargeCardResult(chargeResponse) ==
  IF ~chargeResponse.json THEN Raise(JsonSyntaxError, <<>>)
  ELSE IF ~chargeResponse.ok
  THEN Raise("Tap Charge API error", <<>>)
  ELSE [NoRes EXCEPT !.kind = "returned", !.value = chargeResponse.id,
                     !.chargeStatus = chargeResponse.status]

\* The outcome of a step that ended the function
Outcome(step) ==
  IF step.kind = "threw" THEN Raise(step.text, <<>>)
  ELSE [NoRes EXCEPT !.kind = "returned", !.value = step.value]

----------------------------------------------------------------------------
\* Invocations that run concurrently: each has its own parameters, locals
\* and position; process.env is all they share.

CallIds == 1..MaxCalls

IdleCall ==
  [pc |-> "idle", op |-> "none", provider |-> "none", req |-> NoReq,
   params |-> NoParams, res |-> NoRes, net |-> <<>>, netIn |-> <<>>]

----------------------------------------------------------------------------
\* The state machine: one invocation at a time; its inputs are chosen when
\* it starts, and Finish hands its result to the caller.

Init ==
  /\ env \in Envs
  /\ calls = [c \in CallIds |-> IdleCall]
  /\ data = NoData
  /\ pc = "idle"
  /\ op = "none"
  /\ provider = "none"
  /\ req = NoReq
  /\ params = NoParams
  /\ res = NoRes
  /\ net = <<>>
  /\ netIn = <<>>

\* usePayment(p).webhookHandler(req) runs to its response (or its exception)
Webhook(p) ==
  /\ pc = "idle"
  /\ \E r \in Requests(p) :
       /\ req' = r
       /\ res' = WebhookHandler(p, env, r)
  /\ pc' = "done"
  /\ op' = "webhook"
  /\ provider' = p
  /\ UNCHANGED <<env, calls, data, params, net, netIn>>

StripeWebhook == Webhook("stripe")
LemonSqueezyWebhook == Webhook("lemonsqueezy")
PolarWebhook == Webhook("polar")
CreemWebhook == Webhook("creem")
DodoPaymentsWebhook == Webhook("dodopayments")
TapWebhook == Webhook("tap")
ConsoleWebhook == Webhook("console")
CustomWebhook == Webhook("custom")

\* A step of a function that calls the provider: it ends the function, or
\* issues a fetch and waits at `next`.
Advance(step, next) ==
  IF step.kind = "fetch"
  THEN /\ net' = Append(net, step.fetch)
       /\ pc' = next
       /\ res' = NoRes
  ELSE /\ net' = net
       /\ pc' = "done"
       /\ res' = Outcome(step)

\* usePayment(p).createCheckoutLink(params) is called
CheckoutStart ==
  /\ pc = "idle"
  /\ \E p \in Providers, prm \in CheckoutParams :
       /\ provider' = p
       /\ params' = prm
       /\ Advance(CreateCheckoutLink(p, env, prm), "awaitCheckout")
  /\ op' = "createCheckoutLink"
  /\ UNCHANGED <<env, calls, data, req, netIn>>

\* the provider answers the checkout request
CheckoutAnswer ==
  /\ pc = "awaitCheckout"
  /\ \E a \in CheckoutAnswers :
       /\ netIn' = Append(netIn, a)
       /\ Advance(CheckoutLinkResult(provider, a), "done")
  /\ UNCHANGED <<env, calls, data, op, provider, req, params>>

\* usePayment(p).createCustomerPortalLink(params) is called
PortalStart ==
  /\ pc = "idle"
  /\ \E p \in Providers, prm \in PortalParams :
       /\ provider' = p
       /\ params' = prm
       /\ Advance(CreateCustomerPortalLink(p, env, prm), "awaitPortal")
  /\ op' = "createCustomerPortalLink"
  /\ UNCHANGED <<env, calls, data, req, netIn>>

\* the provider answers the portal request
PortalAnswer ==
  /\ pc = "awaitPortal"
  /\ \E a \in CheckoutAnswers :
       /\ netIn' = Append(netIn, a)
       /\ Advance(PortalLinkResult(provider, a), "done")
  /\ UNCHANGED <<env, calls, data, op, provider, req, params>>

\* chargeCard(params) is called
ChargeCardStart ==
  /\ pc = "idle"
  /\ \E prm \in ChargeParams :
       /\ params' = prm
       /\ Advance(ChargeCardTokenize(env, prm), "awaitToken")
  /\ op' = "chargeCard"
  /\ provider' = "tap"
  /\ UNCHANGED <<env, calls, data, req, netIn>>

\* Tap answers POST /tokens
TokenAnswer ==
  /\ pc = "awaitToken"
  /\ \E a \in TokenAnswers :
       /\ netIn' = Append(netIn, a)
       /\ Advance(ChargeCardCharge(net[1].auth, params, a), "awaitCharge")
  /\ UNCHANGED <<env, calls, data, op, provider, req, params>>

\* Tap answers POST /charges
ChargeAnswer ==
  /\ pc = "awaitCharge"
  /\ \E a \in ChargeAnswers :
       /\ netIn' = Append(netIn, a)
       /\ res' = ChargeCardResult(a)
  /\ pc' = "done"
  /\ UNCHANGED <<env, calls, data, op, provider, req, params, net>>

\* The data objects extractSavedCardFromWebhook is given: each member missing,
\* without id, with an empty id or with one of two ids.
MemberIds == {Undefined, "", "id_1", "id_2"}
Members == {NoMember} \cup {Member(i) : i \in MemberIds}
EventDatas == {Data(c, u, a) : c \in Members, u \in Members, a \in Members}

\* extractSavedCardFromWebhook(webhookData) is called (it is synchronous)
ExtractSavedCard ==
  /\ pc = "idle"
  /\ \E d \in EventDatas :
       /\ data' = d
       /\ res' = LET r == ExtractSavedCardFromWebhook(d) IN
                 IF r.threw THEN Raise("TypeError", <<>>)
                 ELSE [NoRes EXCEPT !.kind = "returned",
                                    !.value = IF r.found THEN "TapSavedCardResult" ELSE "null",
                                    !.saved = r.card]
  /\ pc' = "done"
  /\ op' = "extractSavedCardFromWebhook"
  /\ provider' = "tap"
  /\ UNCHANGED <<env, calls, req, params, net, netIn>>

\* The caller has the result; the next invocation may start.
Finish ==
  /\ pc = "done"
  /\ pc' = "idle"
  /\ op' = "none"
  /\ provider' = "none"
  /\ req' = NoReq
  /\ params' = NoParams
  /\ data' = NoData
  /\ res' = NoRes
  /\ net' = <<>>
  /\ netIn' = <<>>
  /\ UNCHANGED <<env, calls>>

Next ==
  \/ StripeWebhook
  \/ LemonSqueezyWebhook
  \/ PolarWebhook
  \/ CreemWebhook
  \/ DodoPaymentsWebhook
  \/ TapWebhook
  \/ ConsoleWebhook
  \/ CustomWebhook
  \/ CheckoutStart
  \/ CheckoutAnswer
  \/ PortalStart
  \/ PortalAnswer
  \/ ChargeCardStart
  \/ TokenAnswer
  \/ ChargeAnswer
  \/ ExtractSavedCard
  \/ Finish

Spec == Init /\ [][Next]_vars

----------------------------------------------------------------------------
\* Concurrent invocations: each call takes its steps between the steps of
\* the others; an invocation is suspended only while a fetch is awaited.

\* The configurations concurrent calls are run in
ConcurrentEnvs == {AllSet, [AllSet EXCEPT !["TAP_SECRET_KEY"] = Unset]}

ConcurrentProviders == {"stripe", "tap"}

\* A webhook request with a valid or a wrong signature
ConcurrentRequests(p) ==
  {[NoReq EXCEPT !.method = "POST", !.body = TextBody(OriginalText(p)), !.sig = s] :
     s \in {Signature(p, ProviderSecret(p), <<>>, <<>>, OriginalText(p)), DeadBeef}}

ConcurrentCheckoutParams ==
  {[NoParams EXCEPT !.type = "subscription", !.seats = MaxSeats]}

LinkAnswers == {[NoAnswer EXCEPT !.ok = TRUE, !.url = "https://provider/checkout"], NoAnswer}
CardTokenAnswers == {a \in TokenAnswers : a.json}
CardChargeAnswers == {a \in ChargeAnswers : a.json /\ a.status \in {"", "CAPTURED"}}

\* A step of a call: it ends the function, or issues a fetch and waits
CallAdvance(call, step, next) ==
  IF step.kind = "fetch"
  THEN [call EXCEPT !.net = Append(@, step.fetch), !.pc = next]
  ELSE [call EXCEPT !.pc = "done", !.res = Outcome(step)]

InitConcurrent ==
  /\ Init
  /\ env \in ConcurrentEnvs

CallWebhook ==
  \E c \in CallIds, p \in ConcurrentProviders :
    /\ calls[c].pc = "idle"
    /\ \E r \in ConcurrentRequests(p) :
         calls' = [calls EXCEPT ![c] =
                     [@ EXCEPT !.pc = "done", !.op = "webhook", !.provider = p,
                               !.req = r, !.res = WebhookHandler(p, env, r)]]
    /\ UNCHANGED <<env, pc, op, provider, req, params, data, res, net, netIn>>

CallCheckout ==
  \E c \in CallIds, p \in ConcurrentProviders, prm \in ConcurrentCheckoutParams :
    /\ calls[c].pc = "idle"
    /\ calls' = [calls EXCEPT ![c] =
                   CallAdvance([@ EXCEPT !.op = "createCheckoutLink", !.provider = p,
                                         !.params = prm],
                               CreateCheckoutLink(p, env, prm), "awaitCheckout")]
    /\ UNCHANGED <<env, pc, op, provider, req, params, data, res, net, netIn>>

CallCheckoutAnswer ==
  \E c \in CallIds, a \in LinkAnswers :
    /\ calls[c].pc = "awaitCheckout"
    /\ calls' = [calls EXCEPT ![c] =
                   CallAdvance([@ EXCEPT !.netIn = Append(@, a)],
                               CheckoutLinkResult(calls[c].provider, a), "done")]
    /\ UNCHANGED <<env, pc, op, provider, req, params, data, res, net, netIn>>

CallPortal ==
  \E c \in CallIds, p \in ConcurrentProviders, prm \in PortalParams :
    /\ calls[c].pc = "idle"
    /\ prm.customerId = "cus_1"
    /\ calls' = [calls EXCEPT ![c] =
                   CallAdvance([@ EXCEPT !.op = "createCustomerPortalLink",
                                         !.provider = p, !.params = prm],
                               CreateCustomerPortalLink(p, env, prm), "awaitPortal")]
    /\ UNCHANGED <<env, pc, op, provider, req, params, data, res, net, netIn>>

CallPortalAnswer ==
  \E c \in CallIds, a \in LinkAnswers :
    /\ calls[c].pc = "awaitPortal"
    /\ calls' = [calls EXCEPT ![c] =
                   CallAdvance([@ EXCEPT !.netIn = Append(@, a)],
                               PortalLinkResult(calls[c].provider, a), "done")]
    /\ UNCHANGED <<env, pc, op, provider, req, params, data, res, net, netIn>>

CallChargeCard ==
  \E c \in CallIds, prm \in ChargeParams :
    /\ calls[c].pc = "idle"
    /\ calls' = [calls EXCEPT ![c] =
                   CallAdvance([@ EXCEPT !.op = "chargeCard", !.provider = "tap",
                                         !.params = prm],
                               ChargeCardTokenize(env, prm), "awaitToken")]
    /\ UNCHANGED <<env, pc, op, provider, req, params, data, res, net, netIn>>

CallTokenAnswer ==
  \E c \in CallIds, a \in CardTokenAnswers :
    /\ calls[c].pc = "awaitToken"
    /\ calls' = [calls EXCEPT ![c] =
                   CallAdvance([@ EXCEPT !.netIn = Append(@, a)],
                               ChargeCardCharge(calls[c].net[1].auth, calls[c].params, a),
                               "awaitCharge")]
    /\ UNCHANGED <<env, pc, op, provider, req, params, data, res, net, netIn>>

CallChargeAnswer ==
  \E c \in CallIds, a \in CardChargeAnswers :
    /\ calls[c].pc = "awaitCharge"
    /\ calls' = [calls EXCEPT ![c] =
                   [@ EXCEPT !.netIn = Append(@, a), !.pc = "done",
                             !.res = ChargeCardResult(a)]]
    /\ UNCHANGED <<env, pc, op, provider, req, params, data, res, net, netIn>>

NextConcurrent ==
  \/ CallWebhook
  \/ CallCheckout
  \/ CallCheckoutAnswer
  \/ CallPortal
  \/ CallPortalAnswer
  \/ CallChargeCard
  \/ CallTokenAnswer
  \/ CallChargeAnswer

SpecConcurrent == InitConcurrent /\ [][NextConcurrent]_vars

----------------------------------------------------------------------------
\* Properties

WebhookDone(p) == pc = "done" /\ op = "webhook" /\ provider = p

SecretConfigured(p) == ~Falsy(env[WebhookSecretKey(p)])

\* The success status of each provider's webhook handler (table of 4.2)
SuccessStatus(p) ==
  CASE p \in {"stripe", "tap", "console"} -> 200
    [] p = "polar" -> 202
    [] p \in {"lemonsqueezy", "creem", "dodopayments"} -> 204

\* The signature that is valid for the request as received, under key k
ValidSignature(p, k, r) == Signature(p, k, r.id.str, r.ts.str, BodyText(r.body))

\* The provider's POST request whose signature was computed over another
\* body (headers as signed) and is not valid for the body received.
Tampered(p, r) ==
  /\ r.method = "POST"
  /\ r.body.kind = "text"
  /\ r.sig # ValidSignature(p, ProviderSecret(p), r)
  /\ \E x \in Texts :
       /\ x # BodyText(r.body)
       /\ r.sig = Signature(p, ProviderSecret(p), r.id.str, r.ts.str, x)

\* C1: with the webhook secret configured, a request whose body was changed
\* after signing never receives the success status: every signed provider
\* answers it 400 or 401, also when the changed body is well-formed JSON.
C1_TamperedBodyRejected ==
  \A p \in SignedProviders :
    (WebhookDone(p) /\ SecretConfigured(p) /\ Tampered(p, req))
      => (res.kind = "response" /\ res.status \in {400, 401})

\* The index of the first occurrence of step s in a trace, 0 when absent
FirstIndex(trace, s) ==
  IF \E i \in 1..Len(trace) : trace[i] = s
  THEN CHOOSE i \in 1..Len(trace) : trace[i] = s /\ \A j \in 1..(i - 1) : trace[j] # s
  ELSE 0

\* C2: in every signed provider's handler, event dispatch (and Tap's
\* saved-card extraction) is reached only after signature verification of
\* the same request has run and reported valid.
C2_DispatchOnlyAfterValidVerification ==
  \A p \in SignedProviders :
    WebhookDone(p) =>
      \A i \in 1..Len(res.trace) :
        res.trace[i] \in {"dispatch", "extract"} =>
          /\ FirstIndex(res.trace, "verify_valid") \in 1..(i - 1)
          /\ FirstIndex(res.trace, "verify_invalid") = 0

\* C3: chargeCard issues POST /charges only after its own POST /tokens was
\* answered with success, with the answered token id as source.id; when the
\* tokenize call fails it raises and has made no charge call.
C3_TokenizeThenCharge ==
  op = "chargeCard" =>
    /\ \A i \in 1..Len(net) :
         net[i].path = "/charges" =>
           /\ i = 2
           /\ net[1].path = "/tokens"
           /\ Len(netIn) >= 1
           /\ netIn[1].ok
           /\ net[i].source = netIn[1].id
    /\ (Len(netIn) >= 1 /\ ~netIn[1].ok) =>
         /\ pc = "done"
         /\ res.kind = "threw"
         /\ \A i \in 1..Len(net) : net[i].path # "/charges"

\* a charge was issued with the second token id the provider can answer
C3_Witness ==
  /\ op = "chargeCard"
  /\ Len(net) = 2
  /\ net[2].path = "/charges"
  /\ netIn[1].id = "tok_2"
  /\ net[2].source = "tok_2"

\* The secret the handler reads from the environment
Secret(p) == env[WebhookSecretKey(p)]

\* A POST request with a readable body (for Tap one that parses, for
\* DodoPayments with webhook-id and webhook-timestamp) whose signature header
\* is present and not empty and is not the signature valid for the request.
Mismatching(p, r) ==
  /\ r.method = "POST"
  /\ r.body.kind = "text"
  /\ p = "tap" => JsonParse(BodyText(r.body)).ok
  /\ p = "dodopayments" => ~HeaderFalsy(r.id) /\ ~HeaderFalsy(r.ts)
  /\ ~SigFalsy(r.sig)
  /\ r.sig # ValidSignature(p, Secret(p), r)

VerifyingProviders == {"lemonsqueezy", "creem", "dodopayments", "tap"}

\* C4 as stated: with the secret configured, a present signature that does
\* not match the expected one is answered 401 by LemonSqueezy, Creem,
\* DodoPayments and Tap.
C4_MismatchAnswered401 ==
  \A p \in VerifyingProviders :
    (WebhookDone(p) /\ SecretConfigured(p) /\ Mismatching(p, req))
      => (res.kind = "response" /\ res.status = 401)

MismatchStatus(p) == IF p \in {"dodopayments", "tap"} THEN 401 ELSE 400

\* C4 as amended: such a request is never accepted; DodoPayments and Tap
\* answer it 401, LemonSqueezy and Creem answer it 400.
C4_MismatchRejected ==
  \A p \in VerifyingProviders :
    (WebhookDone(p) /\ SecretConfigured(p) /\ Mismatching(p, req))
      => (res.kind = "response" /\ res.status = MismatchStatus(p))

\* LemonSqueezy compared a 64-character signature that is no digest of the
\* body and answered "Invalid signature"
C4_Witness ==
  /\ WebhookDone("lemonsqueezy")
  /\ SecretConfigured("lemonsqueezy")
  /\ Mismatching("lemonsqueezy", req)
  /\ req.sig = WrongHex
  /\ res.status = 400
  /\ res.text = "Invalid signature"

\* C5: a request handled while the provider's webhook secret is absent is
\* answered 500, whatever its method, headers and body.
C5_MissingSecretAnswered500 ==
  \A p \in SignedProviders :
    (WebhookDone(p) /\ Falsy(Secret(p)))
      => (res.kind = "response" /\ res.status = 500)

\* C6: every provider's webhookHandler ends by returning a response; none
\* ends by raising an exception to its caller.
C6_HandlerNeverRaises ==
  \A p \in Providers : WebhookDone(p) => res.kind = "response"

\* A POST request with a JSON body and, for the signed providers, the secret
\* configured and the signature that is valid for the request.
ValidJsonRequest(p, r) ==
  /\ r.method = "POST"
  /\ r.body.kind = "text"
  /\ JsonParse(BodyText(r.body)).ok
  /\ p \in SignedProviders =>
       /\ SecretConfigured(p)
       /\ r.sig = ValidSignature(p, Secret(p), r)
  /\ p = "dodopayments" => ~HeaderFalsy(r.id) /\ ~HeaderFalsy(r.ts)

HasMembersRead(p, value) ==
  /\ value.kind = "object"
  /\ p = "lemonsqueezy" => Prop(value, "meta") # Undefined
  /\ (p = "tap" /\ Prop(value, "event") = "event=CHARGE.CAPTURED")
       => Prop(value, "data") # Undefined

C8_LemonSqueezyScenario ==
  (/\ WebhookDone("lemonsqueezy")
   /\ SecretConfigured("lemonsqueezy")
   /\ req.body = TextBody(LsScenarioBody))
    => /\ res.kind = "response"
       /\ res.status = IF req.sig = HexHmac(Secret("lemonsqueezy"), LsScenarioBody)
                       THEN 204 ELSE 400

\* the scenario's body with signature "deadbeef" was answered 400
C8_Witness ==
  /\ WebhookDone("lemonsqueezy")
  /\ SecretConfigured("lemonsqueezy")
  /\ req.body = TextBody(LsScenarioBody)
  /\ req.sig = DeadBeef
  /\ res.kind = "response"
  /\ res.status = 400

\* A DodoPayments request with the secret configured, a readable body and
\* the three webhook headers present and not empty.
DodoCase ==
  /\ WebhookDone("dodopayments")
  /\ SecretConfigured("dodopayments")
  /\ req.body.kind = "text"
  /\ ~HeaderFalsy(req.id) /\ ~HeaderFalsy(req.ts) /\ ~SigFalsy(req.sig)

\* hex HMAC-SHA256 of id + "." + timestamp + "." + body under the secret
DodoExpected(id, ts, text) ==
  HexHmac(Secret("dodopayments"), id \o <<".">> \o ts \o <<".">> \o text)

\* The signature was computed for the request with another webhook-id, or
\* with another webhook-timestamp, than the one received.
DodoHeaderChanged ==
  \/ \E i \in IdStrs : i # req.id.str /\ req.sig = DodoExpected(i, req.ts.str, req.body.text)
  \/ \E t \in TsStrs : t # req.ts.str /\ req.sig = DodoExpected(req.id.str, t, req.body.text)

\* C9 as stated: 204 when webhook-signature is the hex HMAC of
\* id.timestamp.body and the body is JSON, 401 for every other signature
\* value, also for one computed before the id or the timestamp was changed.
C9_DodoScenario ==
  DodoCase =>
    /\ res.kind = "response"
    /\ (req.sig = DodoExpected(req.id.str, req.ts.str, req.body.text)
          /\ JsonParse(req.body.text).ok) => res.status = 204
    /\ req.sig # DodoExpected(req.id.str, req.ts.str, req.body.text) => res.status = 401
    /\ DodoHeaderChanged => res.status = 401

\* C9 as amended: 204 when the signature matches and the body is JSON other
\* than the literal null (400 for null, as for a body that is no JSON), 401
\* for every other signature value, also after the id or the timestamp alone
\* was changed.
C9_DodoScenarioObject ==
  DodoCase =>
    /\ res.kind = "response"
    /\ req.sig = DodoExpected(req.id.str, req.ts.str, req.body.text) =>
         res.status = IF JsonParse(req.body.text).kind = "object" THEN 204 ELSE 400
    /\ req.sig # DodoExpected(req.id.str, req.ts.str, req.body.text) => res.status = 401
    /\ DodoHeaderChanged => res.status = 401

\* the scenario's body, signed with another webhook-id than the one
\* received, was answered 401
C9_Witness ==
  /\ DodoCase
  /\ req.body = TextBody(DodoScenarioBody)
  /\ req.id = Header(<<"a">>)
  /\ req.ts = Header(<<"c">>)
  /\ req.sig = DodoExpected(<<"a", ".", "b">>, <<"c">>, DodoScenarioBody)
  /\ res.status = 401

\* The keys createCheckoutLink of a provider needs
CheckoutKeys(p) ==
  CASE p = "stripe" -> {"STRIPE_SECRET_KEY"}
    [] p = "lemonsqueezy" -> {"LEMONSQUEEZY_API_KEY", "LEMONSQUEEZY_STORE_ID"}
    [] p = "polar" -> {"POLAR_ACCESS_TOKEN"}
    [] p = "creem" -> {"CREEM_API_KEY"}
    [] p = "dodopayments" -> {"DODO_PAYMENTS_API_KEY"}
    [] p = "tap" -> {"TAP_SECRET_KEY"}
    [] OTHER -> {}

\* C10: createCheckoutLink called while a key it needs is absent raises the
\* configuration error naming an absent key, and has issued no network call.
C10_MissingKeyRaisesBeforeFetch ==
  \A p \in SignedProviders :
    (op = "createCheckoutLink" /\ provider = p
       /\ \E k \in CheckoutKeys(p) : env[k] \in {Unset, Blank})
      => /\ pc = "done"
         /\ res.kind = "threw"
         /\ \E k \in CheckoutKeys(p) :
              env[k] \in {Unset, Blank} /\ res.text = "Missing env variable " \o k
         /\ net = <<>>

\* LemonSqueezy with the api key set and the store id undefined raised
C10_Witness ==
  /\ op = "createCheckoutLink"
  /\ provider = "lemonsqueezy"
  /\ env["LEMONSQUEEZY_API_KEY"] = ValueOf("LEMONSQUEEZY_API_KEY")
  /\ env["LEMONSQUEEZY_STORE_ID"] = Unset
  /\ res.kind = "threw"
  /\ res.text = "Missing env variable LEMONSQUEEZY_STORE_ID"
  /\ net = <<>>

\* C11: for Stripe, LemonSqueezy, Polar, Creem, DodoPayments and Tap, the
\* request createCheckoutLink sends carries quantity 1 when seats is absent
\* and quantity n when seats = n.
C11_SeatsBecomeQuantity ==
  \A p \in SignedProviders :
    (op = "createCheckoutLink" /\ provider = p /\ Len(net) >= 1)
      => net[1].quantity = (IF params.seats = NoNum THEN 1 ELSE params.seats)

\* C12: the request createCheckoutLink sends carries a trial field only when
\* the type is subscription: a one-time checkout with trialPeriodDays set
\* sends none.
C12_TrialOnlyForSubscription ==
  (op = "createCheckoutLink" /\ Len(net) >= 1 /\ params.type # "subscription")
    => net[1].trial = NoNum

ExtractDone == pc = "done" /\ op = "extractSavedCardFromWebhook"

\* card.id, customer.id or payment_agreement.id is missing (the containing
\* object is missing, or it has no id)
IdMissing(member) == ~member.present \/ member.id = Undefined
AnyIdMissing(d) ==
  IdMissing(d.card) \/ IdMissing(d.customer) \/ IdMissing(d.payment_agreement)

\* the token carries exactly customer.id, card.id and payment_agreement.id
ExactToken(d) ==
  /\ res.value = "TapSavedCardResult"
  /\ res.saved = [customerId |-> d.customer.id, cardId |-> d.card.id,
                  paymentAgreementId |-> d.payment_agreement.id]

\* C13: extractSavedCardFromWebhook never raises on an event-data object; it
\* returns null when card.id, customer.id or payment_agreement.id is missing,
\* and otherwise a token with exactly these three ids.
C13_ExtractSavedCard ==
  ExtractDone =>
    /\ res.kind = "returned"
    /\ IF AnyIdMissing(data) THEN res.value = "null" ELSE ExactToken(data)

\* an id that is present and the empty string
AnyIdEmpty(d) == d.card.id = "" \/ d.customer.id = "" \/ d.payment_agreement.id = ""

\* C13 (as the code has it): extractSavedCardFromWebhook never raises on an
\* event-data object; it returns null when card.id, customer.id or
\* payment_agreement.id is missing or empty, and otherwise a token with
\* exactly these three ids.
C13_ExtractSavedCardNonEmpty ==
  ExtractDone =>
    /\ res.kind = "returned"
    /\ IF AnyIdMissing(data) \/ AnyIdEmpty(data)
       THEN res.value = "null" /\ res.saved = NoSavedCard
       ELSE ExactToken(data)

\* a token was returned for three different ids, and null for a data object
\* without payment_agreement
C13_Witness ==
  /\ ExtractDone
  /\ data = Data(Member("id_1"), Member("id_2"), Member("id_1"))
  /\ res.saved = [customerId |-> "id_2", cardId |-> "id_1", paymentAgreementId |-> "id_1"]

\* C14: Tap createCustomerPortalLink fails on every invocation with the
\* unsupported-operation error, whatever the request and the configuration
\* (TAP_SECRET_KEY absent included), and issues no network call.
C14_TapPortalUnsupported ==
  (op = "createCustomerPortalLink" /\ provider = "tap")
    => /\ pc = "done"
       /\ res.kind = "threw"
       /\ res.text = TapPortalError
       /\ res.value = ""
       /\ net = <<>>

\* Tap's portal link was asked for while TAP_SECRET_KEY is undefined
C14_Witness ==
  /\ op = "createCustomerPortalLink"
  /\ provider = "tap"
  /\ env["TAP_SECRET_KEY"] = Unset
  /\ params.customerId = "cus_2"
  /\ res.kind = "threw"

\* C15: the charge request Tap createCheckoutLink sends has save_card
\* enabled exactly when the type is subscription; a one-time checkout never
\* enables it.
C15_SaveCardIffSubscription ==
  (op = "createCheckoutLink" /\ provider = "tap" /\ Len(net) >= 1)
    => /\ net[1].path = "/charges"
       /\ net[1].saveCard \in {"true", "false"}
       /\ (net[1].saveCard = "true") <=> (params.type = "subscription")

\* a one-time Tap checkout was sent, and answered, with save_card off
C15_Witness ==
  /\ op = "createCheckoutLink"
  /\ provider = "tap"
  /\ params.type = "one-time"
  /\ Len(net) = 1
  /\ net[1].saveCard = "false"
  /\ pc = "done"

\* An invocation of createCheckoutLink or createCustomerPortalLink whose
\* request the provider answered with a status that is not ok
AnsweredNotOk ==
  /\ op \in {"createCheckoutLink", "createCustomerPortalLink"}
  /\ Len(netIn) >= 1
  /\ ~netIn[1].ok

\* C16: when the provider answers createCheckoutLink or
\* createCustomerPortalLink with a non-success status, the operation raises
\* the provider error ("<Provider> API error: <body>") and returns no URL,
\* having issued exactly one network call.
C16_NotOkRaisesProviderError ==
  AnsweredNotOk =>
    /\ pc = "done"
    /\ res.kind = "threw"
    /\ res.text = ApiErrorText(provider)
    /\ res.value = ""
    /\ Len(net) = 1

\* The environment in which provider p has the configuration it has in e and
\* every other provider is configured.
OwnConfig(e, p) ==
  [k \in EnvKeys |-> IF k \in ProviderKeys(p) THEN e[k] ELSE ValueOf(k)]

\* What an invocation that calls the provider has done so far, given its
\* first step and its result once the provider answered.
RanAs(first, afterAnswer) ==
  IF first.kind = "fetch"
  THEN /\ Len(net) = 1
       /\ net[1] = first.fetch
       /\ IF netIn = <<>> THEN pc # "done" /\ res = NoRes
          ELSE pc = "done" /\ res = Outcome(afterAnswer)
  ELSE /\ net = <<>>
       /\ pc = "done"
       /\ res = Outcome(first)

\* C17: a provider's createCheckoutLink, createCustomerPortalLink and
\* webhookHandler read only that provider's keys, when they are called: with
\* any other provider's keys absent they do what they do with every other
\* provider configured, and nothing has failed before a call is made.
C17_OwnConfigurationOnly ==
  /\ pc = "idle" => res = NoRes
  /\ (pc = "done" /\ op = "webhook")
       => res = WebhookHandler(provider, OwnConfig(env, provider), req)
  /\ op = "createCheckoutLink"
       => RanAs(CreateCheckoutLink(provider, OwnConfig(env, provider), params),
                CheckoutLinkResult(provider, IF netIn = <<>> THEN NoAnswer ELSE netIn[1]))
  /\ op = "createCustomerPortalLink"
       => RanAs(CreateCustomerPortalLink(provider, OwnConfig(env, provider), params),
                PortalLinkResult(provider, IF netIn = <<>> THEN NoAnswer ELSE netIn[1]))

\* Stripe is not configured at all and Polar's portal link was returned
C17_Witness ==
  /\ \A k \in ProviderKeys("stripe") : env[k] = Unset
  /\ op = "createCustomerPortalLink"
  /\ provider = "polar"
  /\ pc = "done"
  /\ res.kind = "returned"
  /\ res.value = "https://provider/checkout"

\* The handlers that compare the supplied signature with the one they
\* compute themselves
ComparingProviders == {"lemonsqueezy", "creem", "dodopayments"}

\* the handler went through a comparison of the signature
Verified == \E i \in 1..Len(res.trace) : res.trace[i] \in {"verify_valid", "verify_invalid"}

\* C19: LemonSqueezy, Creem and DodoPayments compare the supplied signature
\* with the expected one in constant time: given a signature of the expected
\* length, the comparison examines all of its characters, wherever (and
\* whether) the two differ.
C19_ConstantTimeComparison ==
  \A p \in ComparingProviders :
    (WebhookDone(p) /\ Verified /\ req.sig.len = HexLen) => res.compared = HexLen

\* C20: a signature-verifying handler answers "Invalid webhook payload" only
\* to requests whose signature it has validated: never to a request with a
\* missing, wrong-length or mismatching signature.
C20_PayloadErrorOnlyAfterValidSignature ==
  \A p \in VerifyingProviders :
    (WebhookDone(p) /\ res.kind = "response" /\ res.text = "Invalid webhook payload")
      => \E i \in 1..Len(res.trace) : res.trace[i] = "verify_valid"

\* What a call that asks the provider for a link does when it runs alone
\* with the same configuration, inputs and answer.
LinkCallAlone(call, first, afterAnswer) ==
  IF first.kind = "fetch"
  THEN /\ call.net = <<first.fetch>>
       /\ IF call.netIn = <<>>
          THEN call.pc \in {"awaitCheckout", "awaitPortal"} /\ call.res = NoRes
          ELSE /\ Len(call.netIn) = 1
               /\ call.pc = "done"
               /\ call.res = Outcome(afterAnswer)
  ELSE /\ call.net = <<>>
       /\ call.netIn = <<>>
       /\ call.pc = "done"
       /\ call.res = Outcome(first)

\* What a chargeCard call does when it runs alone; the charge request carries
\* the token of the answer this call received, and its own customer.
ChargeCardAlone(call) ==
  LET first == ChargeCardTokenize(env, call.params) IN
  IF first.kind # "fetch"
  THEN call.net = <<>> /\ call.netIn = <<>> /\ call.pc = "done" /\ call.res = Outcome(first)
  ELSE /\ Len(call.net) >= 1
       /\ call.net[1] = first.fetch
       /\ call.net[1].cardId = call.params.cardId
       /\ IF call.netIn = <<>>
          THEN Len(call.net) = 1 /\ call.pc = "awaitToken" /\ call.res = NoRes
          ELSE IF ~call.netIn[1].ok
          THEN /\ Len(call.net) = 1 /\ Len(call.netIn) = 1
               /\ call.pc = "done"
               /\ call.res = Raise("Tap Token API error", <<>>)
          ELSE /\ Len(call.net) = 2
               /\ call.net[2].path = "/charges"
               /\ call.net[2].source = call.netIn[1].id
               /\ call.net[2].customer = call.params.customerId
               /\ call.net[2].auth = env["TAP_SECRET_KEY"]
               /\ IF Len(call.netIn) = 1
                  THEN call.pc = "awaitCharge" /\ call.res = NoRes
                  ELSE /\ Len(call.netIn) = 2
                       /\ call.pc = "done"
                       /\ call.res = ChargeCardResult(call.netIn[2])

RunsAsAlone(call) ==
  CASE call.op = "webhook" ->
         /\ call.pc = "done"
         /\ call.net = <<>>
         /\ call.res = WebhookHandler(call.provider, env, call.req)
    [] call.op = "createCheckoutLink" ->
         LinkCallAlone(call, CreateCheckoutLink(call.provider, env, call.params),
                       CheckoutLinkResult(call.provider,
                                          IF call.netIn = <<>> THEN NoAnswer ELSE call.netIn[1]))
    [] call.op = "createCustomerPortalLink" ->
         LinkCallAlone(call, CreateCustomerPortalLink(call.provider, env, call.params),
                       PortalLinkResult(call.provider,
                                        IF call.netIn = <<>> THEN NoAnswer ELSE call.netIn[1]))
    [] call.op = "chargeCard" -> ChargeCardAlone(call)
    [] OTHER -> call = IdleCall

\* a step changes one call only, and never the environment
OneCallSteps ==
  /\ env' = env
  /\ \A c, d \in CallIds : (calls'[c] # calls[c] /\ calls'[d] # calls[d]) => c = d

\* C18: in every interleaving of concurrent createCheckoutLink,
\* createCustomerPortalLink, webhookHandler and chargeCard invocations, each
\* invocation's requests and result are those it has when it runs alone with
\* the same inputs, configuration and answers; a charge request carries the
\* token its own invocation received; no step writes process.env or the
\* state of another invocation.
C18_CallsAreIndependent ==
  /\ [](\A c \in CallIds : RunsAsAlone(calls[c]))
  /\ [][OneCallSteps]_vars

\* two chargeCard calls have received different tokens, both before either
\* charge request was answered, and both have sent their charge request
C18_Witness ==
  \E c, d \in CallIds :
    /\ calls[c].op = "chargeCard" /\ calls[d].op = "chargeCard"
    /\ calls[c].pc = "awaitCharge" /\ calls[d].pc = "awaitCharge"
    /\ calls[c].netIn[1].id = "tok_1" /\ calls[d].netIn[1].id = "tok_2"
    /\ calls[c].net[2].source = "tok_1" /\ calls[d].net[2].source = "tok_2"

\* the requests of the invocation that went to path
CallsTo(path) == {i \in 1..Len(net) : net[i].path = path}

\* C21: chargeCard neither retries nor compensates: it issues at most one
\* tokenize call and at most one charge call, in that order; when the charge
\* call fails after a successful tokenize it raises and has issued nothing
\* after the charge; when the charge call succeeds it returns the id of the
\* answer as chargeId and the status of the answer, whatever it is.
C21_NoRetryNoInterpretation ==
  op = "chargeCard" =>
    /\ Cardinality(CallsTo("/tokens")) <= 1
    /\ Cardinality(CallsTo("/charges")) <= 1
    /\ \A i \in 1..Len(net) : net[i].path = (IF i = 1 THEN "/tokens" ELSE "/charges")
    /\ Len(netIn) <= Len(net)
    /\ (Len(netIn) = 2 /\ ~netIn[2].ok)
         => /\ pc = "done"
            /\ res.kind = "threw"
            /\ res.value = "" /\ res.chargeStatus = ""
            /\ Len(net) = 2
    /\ (Len(netIn) = 2 /\ netIn[2].ok /\ netIn[2].json)
         => /\ pc = "done"
            /\ res.kind = "returned"
            /\ res.value = netIn[2].id
            /\ res.chargeStatus = netIn[2].status
            /\ Len(net) = 2

\* a charge that Tap answered with status FAILED was returned as it is
C21_Witness ==
  /\ op = "chargeCard"
  /\ pc = "done"
  /\ Len(netIn) = 2
  /\ netIn[2].ok /\ netIn[2].status = "FAILED"
  /\ res.kind = "returned"
  /\ res.chargeStatus = "FAILED"
  /\ res.value = "chg_1"

====
